---- MODULE Spec2Model ----
(***************************************************************************)
(* Model of the flare-ai-kit ecosystem connectors (Cyclo, Kinetic,         *)
(* Sceptre, SparkDEX, Firelight, Stargate), of the settings they are       *)
(* created from, and of the Chain Client (class Flare) they inherit        *)
(* build_transaction / sign_and_send_transaction from.                     *)
(*                                                                         *)
(* The connectors and the settings are translated from src/.  The Chain    *)
(* Client itself (flare_ai_kit/ecosystem/flare.py) is not among the        *)
(* sources; its operations are modelled from the specification, sections   *)
(* 4.3, 5 and 7.                                                           *)
(***************************************************************************)
EXTENDS Integers, Sequences, FiniteSets, TLC

VARIABLES
    settings,   \* the EcosystemSettings object (or the input it is built from)
    conn,       \* the connector instances, one per connector class
    calls,      \* the connector calls in progress or completed, per task slot
    txCount,    \* chain: number of mined transactions of the account
    pool,       \* chain: nonces of the account's transactions in the pending pool
    nextNonce,  \* Chain Client: the nonce its next built transaction gets
    issued,     \* nonces placed in the transactions built so far, in order
    broadcasts, \* number of eth_sendRawTransaction requests made so far
    startCount  \* the account's transaction count before any call (n0)

vars ==
    <<settings, conn, calls, txCount, pool, nextNonce, issued, broadcasts, startCount>>

----------------------------------------------------------------------------
(* Bounds of the model *)

\* number of task slots that may run connector calls concurrently
MaxCalls == 2
\* number of write transactions built over a behaviour
MaxWrites == 2
\* largest pre-call transaction count of the account
MaxStartCount == 1
\* capital letters in a chain name that is not all capitals
MaxFlips == 1

NoneVal == "None"

Range(q) == { q[i] : i \in 1..Len(q) }

----------------------------------------------------------------------------
(* settings.py: ContractAddresses, Contracts, EcosystemSettings *)

Fields ==
    { "sparkdex_universal_router", "sparkdex_swap_router", "kinetic_comptroller",
      "kinetic_ksflr", "sceptre_sflr", "cyclo_cysflr_vault", "cyclo_cysflr_receipt",
      "firelight_stxrp_vault", "stargate_token_messaging", "stargate_treasurer",
      "stargate_eth_oft", "stargate_usdc_oft", "stargate_usdt_oft" }

\* ContractAddresses.model_fields: the fields in declaration order
model_fields ==
    << "sparkdex_universal_router", "sparkdex_swap_router", "kinetic_comptroller",
       "kinetic_ksflr", "sceptre_sflr", "cyclo_cysflr_vault", "cyclo_cysflr_receipt",
       "firelight_stxrp_vault", "stargate_token_messaging", "stargate_treasurer",
       "stargate_eth_oft", "stargate_usdc_oft", "stargate_usdt_oft" >>

\* class ContractAddresses: every field defaults to None
ContractAddresses == [f \in Fields |-> NoneVal]

\* Contracts.flare: the default mainnet table
FlareDefault ==
    [f \in Fields |->
        CASE f = "sparkdex_universal_router" -> "0x0f3D8a38D4c74afBebc2c42695642f0e3acb15D3"
          [] f = "sparkdex_swap_router"      -> "0x8a1E35F5c98C4E85B36B7B253222eE17773b2781"
          [] f = "kinetic_comptroller"       -> "0xeC7e541375D70c37262f619162502dB9131d6db5"
          [] f = "kinetic_ksflr"             -> "0x291487beC339c2fE5D83DD45F0a15EFC9Ac45656"
          [] f = "sceptre_sflr"              -> "0x12e605bc104e93B45e1aD99F9e555f659051c2BB"
          [] f = "cyclo_cysflr_vault"        -> "0x19831cfB53A0dbeAD9866C43557C1D48DfF76567"
          [] f = "cyclo_cysflr_receipt"      -> "0xd387FC43E19a63036d8FCeD559E81f5dDeF7ef09"
          [] f = "firelight_stxrp_vault"     -> "0x4C18Ff3C89632c3Dd62E796c0aFA5c07c4c1B2b3"
          [] f = "stargate_token_messaging"  -> "0x45d417612e177672958dC0537C45a8f8d754Ac2E"
          [] f = "stargate_treasurer"        -> "0x090194F1EEDc134A680e3b488aBB2D212dba8c01"
          [] f = "stargate_eth_oft"          -> "0x8e8539e4CcD69123c623a106773F2b0cbbc58746"
          [] f = "stargate_usdc_oft"         -> "0x77C71633C34C3784ede189d74223122422492a0f"
          [] f = "stargate_usdt_oft"         -> "0x1C10CC06DC6D35970d1D53B2A23c76ef370d4135"]

\* A Coston2 deployment: the testnet address of field f (testnet addresses are
\* supplied by configuration; they differ from every mainnet address)
TestnetAddr(f) == "0xC2:" \o f

Coston2Full == [f \in Fields |-> TestnetAddr(f)]

\* Contracts.coston2 defaults to ContractAddresses(); a deployment may set any
\* subset of the fields
Coston2Tables ==
    { ContractAddresses, Coston2Full,
      [f \in Fields |-> IF f \in {"kinetic_ksflr", "sparkdex_swap_router"}
                        THEN TestnetAddr(f) ELSE NoneVal],
      [Coston2Full EXCEPT !["stargate_usdt_oft"] = NoneVal] }

\* Mainnet tables offered to Contracts(...): the default one, and the default
\* with one field left unset
FlareTables ==
    {FlareDefault} \cup { [FlareDefault EXCEPT ![f] = NoneVal] : f \in Fields }

\* Contracts.enforce_flare_addresses: the first mainnet field that is None
\* makes construction fail
MissingFlareFields(flare) == { f \in Fields : flare[f] = NoneVal }

\* The field the validator's loop over model_fields reaches first
FirstMissing(flare) ==
    model_fields[CHOOSE i \in 1..Len(model_fields) :
                    /\ flare[model_fields[i]] = NoneVal
                    /\ \A j \in 1..(i - 1) : flare[model_fields[j]] # NoneVal]

enforce_flare_addresses_SkipsStargate(flare) ==
    MissingFlareFields(flare) \subseteq
        { "stargate_token_messaging", "stargate_treasurer", "stargate_eth_oft",
          "stargate_usdc_oft", "stargate_usdt_oft" }

enforce_flare_addresses(flare) == MissingFlareFields(flare) = {}

\* pydantic PositiveInt
PositiveInt(n) == n > 0

\* EcosystemSettings defaults
DefaultMaxRetries == 3
DefaultRetryDelay == 5

AccountAddr == "0x1234567890123456789012345678901234567890"
PrivateKey == "key"

\* The values EcosystemSettings(...) is constructed from
SettingsInputs(testnets, accounts, keys, retries, delays, flares, coston2s) ==
    [ state : {"input"},
      is_testnet : testnets,
      account_address : accounts,
      account_private_key : keys,
      max_retries : retries,
      retry_delay : delays,
      flare : flares,
      coston2 : coston2s,
      error : {"none"} ]

\* EcosystemSettings.__init__ (pydantic validation of the fields and of the
\* nested Contracts model)
SettingsValid(s) ==
    /\ PositiveInt(s.max_retries)
    /\ PositiveInt(s.retry_delay)
    /\ enforce_flare_addresses(s.flare)

SettingsError(s) ==
    IF ~enforce_flare_addresses(s.flare)
    THEN "'" \o FirstMissing(s.flare) \o "' must be set for mainnet contracts"
    ELSE IF ~PositiveInt(s.max_retries) THEN "max_retries: greater than 0"
    ELSE IF ~PositiveInt(s.retry_delay) THEN "retry_delay: greater than 0"
    ELSE "none"

Loaded == settings.state = "loaded"

\* The table selected by is_testnet
SelectedTable(s) == IF s.is_testnet THEN s.coston2 ELSE s.flare

----------------------------------------------------------------------------
(* The connector classes *)

Kinds == {"Cyclo", "Kinetic", "Sceptre", "SparkDEX", "Firelight", "Stargate"}

\* Class constants: Cyclo.CYSFLR_VAULT / CYSFLR_RECEIPT, Sceptre.SFLR_CONTRACT,
\* Firelight.STXRP_VAULT
CYSFLR_VAULT == "0x19831cfB53A0dbeAD9866C43557C1D48DfF76567"
CYSFLR_RECEIPT == "0xd387FC43E19a63036d8FCeD559E81f5dDeF7ef09"
SFLR_CONTRACT == "0x12e605bc104e93B45e1aD99F9e555f659051c2BB"
STXRP_VAULT == "0x4C18Ff3C89632c3Dd62E796c0aFA5c07c4c1B2b3"

\* The table field a connector's contract handle stands for
HandleField(k) ==
    CASE k = "Cyclo"     -> "cyclo_cysflr_vault"
      [] k = "Kinetic"   -> "kinetic_ksflr"
      [] k = "Sceptre"   -> "sceptre_sflr"
      [] k = "SparkDEX"  -> "sparkdex_swap_router"
      [] k = "Firelight" -> "firelight_stxrp_vault"
      [] OTHER           -> "stargate_token_messaging"

\* The protocol-specific error class of a connector (flare_ai_kit.common)
ProtocolError(k) ==
    CASE k = "Cyclo"     -> "CycloError"
      [] k = "Kinetic"   -> "KineticError"
      [] k = "Sceptre"   -> "SceptreError"
      [] k = "SparkDEX"  -> "FlareTxError"
      [] k = "Firelight" -> "FirelightError"
      [] OTHER           -> "StargateError"

\* __init__ of every connector: the handles start as None
NewConnector ==
    [ state |-> "constructed", h1 |-> NoneVal, h2 |-> NoneVal,
      err |-> "none", msg |-> "none", cause |-> "none" ]

NoConnector == [NewConnector EXCEPT !.state = "absent"]

\* create() raised: no instance is returned
CreateFailed(err, msg, cause) ==
    [ state |-> "failed", h1 |-> NoneVal, h2 |-> NoneVal,
      err |-> err, msg |-> msg, cause |-> cause ]

Created(h1, h2) == [NewConnector EXCEPT !.state = "created", !.h1 = h1, !.h2 = h2]

\* The five addresses Stargate.create verifies
StargateFields ==
    { "stargate_token_messaging", "stargate_treasurer", "stargate_eth_oft",
      "stargate_usdc_oft", "stargate_usdt_oft" }

\* Kinetic.create: the ksFLR address of the table selected by is_testnet
KineticAddress(s) ==
    IF s.is_testnet THEN s.coston2["kinetic_ksflr"] ELSE s.flare["kinetic_ksflr"]

\* SparkDEX.create: the SwapRouter address of the table selected by is_testnet
SparkDEXAddress(s) ==
    IF s.is_testnet THEN s.coston2["sparkdex_swap_router"]
    ELSE s.flare["sparkdex_swap_router"]

\* Sceptre.create binds the class constant
SceptreAddress(s) == SFLR_CONTRACT

\* Firelight.create binds the class constant
FirelightAddress(s) == STXRP_VAULT

\* Cyclo.create binds the class constants
CycloVaultAddress(s) == CYSFLR_VAULT
CycloReceiptAddress(s) == CYSFLR_RECEIPT

\* The result of cls.create(settings); abi_ok: load_abi finds the definitions
CreateResult_ReturnsUnbound(k, s, abi_ok) ==
    IF abi_ok THEN Created(SelectedTable(s)[HandleField(k)], CycloReceiptAddress(s))
    ELSE Created(NoneVal, NoneVal)

CreateResult(k, s, abi_ok) ==
    CASE k = "Cyclo" ->
            IF abi_ok THEN Created(CycloVaultAddress(s), CycloReceiptAddress(s))
            ELSE CreateFailed("CycloError", "Failed to initialize", "AbiError")
      [] k = "Kinetic" ->
            IF KineticAddress(s) = NoneVal
            THEN CreateFailed("KineticError", "not configured", "KineticError")
            ELSE IF abi_ok THEN Created(KineticAddress(s), NoneVal)
            ELSE CreateFailed("KineticError", "Failed to initialize", "AbiError")
      [] k = "Sceptre" ->
            IF abi_ok THEN Created(SceptreAddress(s), NoneVal)
            ELSE CreateFailed("SceptreError", "Failed to initialize", "AbiError")
      [] k = "SparkDEX" ->
            IF SparkDEXAddress(s) = NoneVal
            THEN CreateFailed("FlareTxError", "not configured", "none")
            ELSE IF abi_ok THEN Created(SparkDEXAddress(s), NoneVal)
            ELSE CreateFailed("AbiError", "definition not found", "none")
      [] k = "Firelight" ->
            IF abi_ok THEN Created(FirelightAddress(s), NoneVal)
            ELSE CreateFailed("FirelightError", "Failed to initialize", "AbiError")
      [] OTHER ->
            IF \E f \in StargateFields : SelectedTable(s)[f] = NoneVal
            THEN CreateFailed("StargateError", "not configured", "StargateError")
            ELSE Created(NoneVal, NoneVal)

----------------------------------------------------------------------------
(* Construction *)

\* EcosystemSettings(...): validation of the input
LoadSettings ==
    /\ settings.state = "input"
    /\ settings' = IF SettingsValid(settings)
                   THEN [settings EXCEPT !.state = "loaded"]
                   ELSE [settings EXCEPT !.state = "invalid",
                                         !.error = SettingsError(settings)]
    /\ UNCHANGED <<conn, calls, txCount, pool, nextNonce, issued, broadcasts, startCount>>

\* settings.contracts.flare.<f> = v after construction: the models are neither
\* frozen nor validated on assignment, so the assignment takes effect
SetFlareAddress(f, v) ==
    /\ Loaded
    /\ settings.flare[f] # v
    /\ \A k \in DOMAIN conn : conn[k].state = "absent"
    /\ settings' = [settings EXCEPT !.flare[f] = v]
    /\ UNCHANGED <<conn, calls, txCount, pool, nextNonce, issued, broadcasts, startCount>>

\* connector.vault_contract = None / connector.receipt_contract = None on a
\* created Cyclo connector (plain attribute assignment)
ClearHandle(k, which) ==
    /\ Loaded
    /\ conn[k].state = "created"
    /\ conn[k][which] # NoneVal
    /\ \A s \in DOMAIN calls : calls[s].pc = "idle"
    /\ conn' = [conn EXCEPT ![k][which] = NoneVal]
    /\ UNCHANGED <<settings, calls, txCount, pool, nextNonce, issued, broadcasts, startCount>>

\* cls(settings): a bare instance, not initialized by create
Construct(k) ==
    /\ Loaded
    /\ conn[k].state = "absent"
    /\ conn' = [conn EXCEPT ![k] = NewConnector]
    /\ UNCHANGED <<settings, calls, txCount, pool, nextNonce, issued, broadcasts, startCount>>

\* await cls.create(settings)
Create(k, abi_ok) ==
    /\ Loaded
    /\ conn[k].state = "absent"
    /\ conn' = [conn EXCEPT ![k] = CreateResult(k, settings, abi_ok)]
    /\ UNCHANGED <<settings, calls, txCount, pool, nextNonce, issued, broadcasts, startCount>>

----------------------------------------------------------------------------
(* Connector operations *)

Slots == 1..MaxCalls

WriteOps(k) ==
    CASE k = "Cyclo"     -> {"deposit_sflr", "redeem_sflr"}
      [] k = "Kinetic"   -> {"supply", "redeem"}
      [] k = "Sceptre"   -> {"stake_flr", "request_withdrawal", "claim_withdrawal"}
      [] k = "SparkDEX"  -> {"swap_exact_input_single", "swap_exact_output_single"}
      [] k = "Firelight" -> {"stake_xrp", "request_withdrawal", "claim_withdrawal"}
      [] OTHER           -> {}

ReadOps(k) ==
    CASE k = "Cyclo"     -> {"get_cysflr_balance", "get_receipt_balance", "get_vault_asset"}
      [] k = "Kinetic"   -> {"get_balance", "get_underlying_balance",
                             "get_exchange_rate", "get_supply_rate"}
      [] k = "Sceptre"   -> {"get_sflr_balance", "get_total_pooled_flr",
                             "get_flr_by_shares", "get_shares_by_flr"}
      [] k = "SparkDEX"  -> {"get_factory_address", "get_weth9_address"}
      [] k = "Firelight" -> {"get_stxrp_balance", "get_total_assets",
                             "get_current_period", "get_pending_withdrawal"}
      [] OTHER           -> {}

\* Amounts passed to the write operations
Amounts == {1, 10}
\* Values the node returns to a read call
ReadVals == {0, 7}
\* Values eth_estimateGas returns
GasEstimates == {21000}

\* What the node does with a gas estimation / a read call / a broadcast
GasOutcomes == {"ok", "transient", "revert", "empty"}
ReadOutcomes == {"ok", "transient", "revert"}
SendOutcomes == {"accepted", "transient", "rejected", "empty"}
\* Firelight calls get_transaction_count, build_transaction and call() without
\* await: on a synchronous node handle they answer as above, on an asynchronous
\* one they yield a coroutine object the operation cannot use
Unawaited == "unawaited"

IdleCall ==
    [ pc |-> "idle", k |-> "none", op |-> "none", kind |-> "none",
      builds |-> 0, attempts |-> 0, transients |-> 0, lastBuild |-> "none",
      builtBy |-> "none",
      txNonce |-> -1, txValue |-> 0, txFrom |-> NoneVal, txGas |-> 0,
      sentNonce |-> -1, sendCalls |-> 0, sends |-> 0, sendTransients |-> 0, lastSend |-> "none",
      sentBy |-> "none",
      status |-> "none", err |-> "none", msg |-> "none", cause |-> "none",
      hash |-> "none", value |-> -1, rpcValue |-> -1,
      amount |-> 0, arg |-> <<>>, text |-> "none", list |-> <<>>,
      info |-> [ network |-> "none", endpoint_id |-> -1, token_messaging |-> "none",
                 treasurer |-> "none", supported_tokens |-> <<>>,
                 supported_chains |-> <<>> ] ]

NewCall(k, op, kind) ==
    [IdleCall EXCEPT !.pc = "run", !.k = k, !.op = op, !.kind = kind]

\* An exception of class err
Exc(err, msg) == [err |-> err, msg |-> msg, cause |-> "none"]

\* The call ends by raising exc
Raised(c, exc) ==
    [c EXCEPT !.pc = "done", !.status = "raised",
              !.err = exc.err, !.msg = exc.msg, !.cause = exc.cause]

\* The call ends by returning a transaction hash
ReturnedHash(c, h) == [c EXCEPT !.pc = "done", !.status = "returned", !.hash = h]

\* The call ends by returning a decoded value
ReturnedValue(c, v) == [c EXCEPT !.pc = "done", !.status = "returned", !.value = v]

\* How an exception raised inside the body of an operation of connector k
\* reaches the caller: Cyclo's operations and SparkDEX's getters catch
\* Exception and raise their own error from it; the others have no handler
Surface(k, kind, exc) ==
    IF k = "Cyclo" THEN [err |-> "CycloError", msg |-> exc.msg, cause |-> exc.err]
    ELSE IF k = "SparkDEX" /\ kind = "read"
    THEN [err |-> "FlareTxError", msg |-> exc.msg, cause |-> exc.err]
    ELSE exc

\* The handle an operation checks first: Cyclo.get_receipt_balance checks
\* receipt_contract, every other operation its connector's (vault) contract
HandleOf_VaultOnly(k, op) == conn[k].h1

HandleOf(k, op) ==
    IF k = "Cyclo" /\ op = "get_receipt_balance" THEN conn[k].h2 ELSE conn[k].h1

\* The error the first check raises on an unset handle
NotInitialized(k) ==
    IF k = "SparkDEX" THEN Exc("AttributeError", "not fully initialized")
    ELSE Exc(ProtocolError(k), "not initialized")

\* The value argument a write passes to build_transaction: Sceptre.stake_flr
\* passes value=amount, the others leave the default
TxValue_Default(k, op, amount) == 0

TxValue(k, op, amount) == IF k = "Sceptre" /\ op = "stake_flr" THEN amount ELSE 0

\* The transaction hash of the signed transaction of call c
HashOf(c) == "0xhash:" \o ToString(c.sentNonce) \o ":" \o c.k \o "." \o c.op

HasCredential ==
    settings.account_address # NoneVal /\ settings.account_private_key # NoneVal

\* Writes begun whose transaction is built or may still be built
WritesBegun == Len(issued) + Cardinality({s \in Slots : calls[s].pc = "build"})

----------------------------------------------------------------------------
(* The Chain Client: build_transaction and sign_and_send_transaction *)

\* build_transaction(function_call, sender, value) is entered: without a
\* credential it fails at once, before any request to the node
build_transaction(c, sender, value) ==
    LET c1 == [c EXCEPT !.builds = @ + 1, !.txFrom = sender, !.txValue = value] IN
    IF ~HasCredential
    THEN Raised([c1 EXCEPT !.lastBuild = "nocred"],
                Surface(c.k, "write", Exc("TxBuildError", "no credential")))
    ELSE [c1 EXCEPT !.pc = "build"]

\* The failures the retry policy retries: the transient ones (timeout, 5xx,
\* sync lag); a revert or a rejection is not retried
Retryable_AnyFailure(outcome) == outcome \in {"transient", "revert", "rejected"}

Retryable(outcome) == outcome = "transient"

\* A transient failure is retried while the attempt budget max_retries lasts
MayRetry_OneMore(attempts) == attempts <= settings.max_retries

MayRetry(attempts) == attempts < settings.max_retries

\* The nonce build_transaction places in the transaction: the client's
\* per-account counter, reserved and incremented in one step
ReservedNonce == nextNonce

\* The connector's code after build_transaction returned tx: an empty tx is a
\* "Failed to build ..." error, otherwise sign_and_send_transaction(tx) is awaited
AfterBuild_NoCheck(c, built) ==
    [c EXCEPT !.pc = "send", !.sendCalls = @ + 1, !.sentNonce = c.txNonce,
              !.sentBy = "sign_and_send_transaction"]

AfterBuild_RebuiltTx(c, built) ==
    IF ~built
    THEN Raised(c, Surface(c.k, "write", Exc(ProtocolError(c.k), "Failed to build")))
    ELSE [c EXCEPT !.pc = "send", !.sendCalls = @ + 1, !.sentNonce = c.txNonce + 1,
                   !.sentBy = "sign_and_send_transaction"]

AfterBuild(c, built) ==
    IF ~built
    THEN Raised(c, Surface(c.k, "write", Exc(ProtocolError(c.k), "Failed to build")))
    ELSE [c EXCEPT !.pc = "send", !.sendCalls = @ + 1, !.sentNonce = c.txNonce,
                   !.sentBy = "sign_and_send_transaction"]

\* One gas estimation of a build_transaction in progress, answered by the
\* node with g (and the estimate gas)
BuildAttempt(s, g, gas) ==
    LET c  == calls[s]
        c1 == [c EXCEPT !.attempts = @ + 1, !.lastBuild = g]
    IN
    /\ c.pc = "build"
    /\ CASE g = "ok" ->
              /\ calls' = [calls EXCEPT ![s] =
                     AfterBuild([c1 EXCEPT !.builtBy = "build_transaction",
                                           !.txNonce = ReservedNonce,
                                           !.txGas = gas], TRUE)]
              /\ nextNonce' = nextNonce + 1
              /\ issued' = Append(issued, ReservedNonce)
         [] g # "ok" /\ Retryable(g) ->
              /\ calls' = [calls EXCEPT ![s] =
                     LET c2 == [c1 EXCEPT !.transients = @ + 1] IN
                     IF MayRetry(c2.attempts) THEN c2
                     ELSE Raised(c2, Surface(c.k, "write",
                                             Exc("TxBuildError", "timeout")))]
              /\ UNCHANGED <<nextNonce, issued>>
         [] g = "revert" /\ ~Retryable(g) ->
              /\ calls' = [calls EXCEPT ![s] =
                     Raised(c1, Surface(c.k, "write", Exc("TxBuildError", "revert")))]
              /\ UNCHANGED <<nextNonce, issued>>
         [] OTHER ->
              /\ calls' = [calls EXCEPT ![s] = AfterBuild(c1, FALSE)]
              /\ UNCHANGED <<nextNonce, issued>>
    /\ UNCHANGED <<settings, conn, txCount, pool, broadcasts, startCount>>

\* The node accepts a broadcast only with a nonce that is neither mined nor
\* already pending
NodeAnswer(c, o) ==
    IF o = "accepted" /\ (c.sentNonce < txCount \/ c.sentNonce \in pool)
    THEN "rejected" ELSE o

\* tx_hash.hex(): the hexadecimal text of the hash bytes
hex(h) == "hex:" \o h

\* The connector's code after the hash came back: an empty hash is a
\* "Failed to send ..." error (Firelight calls tx_hash.hex() unchecked)
AfterSend_ReturnsEmpty(c, h) ==
    IF h # NoneVal \/ c.k # "Firelight" THEN ReturnedHash(c, h)
    ELSE Raised(c, Exc("AttributeError", "no attribute hex"))

AfterSend_AwaitsReceipt(c, h) ==
    IF h # NoneVal THEN [c EXCEPT !.pc = "receipt"]
    ELSE IF c.k = "Firelight"
    THEN Raised(c, Exc("AttributeError", "no attribute hex"))
    ELSE Raised(c, Surface(c.k, "write", Exc(ProtocolError(c.k), "Failed to send")))

AfterSend(c, h) ==
    IF h # NoneVal
    THEN ReturnedHash(c, IF c.k = "Firelight" THEN hex(h) ELSE h)
    ELSE IF c.k = "Firelight"
    THEN Raised(c, Exc("AttributeError", "no attribute hex"))
    ELSE Raised(c, Surface(c.k, "write", Exc(ProtocolError(c.k), "Failed to send")))

\* One signing and broadcast of the built transaction, answered by the node
\* with o
SendAttempt(s, o) ==
    LET c   == calls[s]
        ans == NodeAnswer(c, o)
        c1  == [c EXCEPT !.sends = @ + 1, !.lastSend = ans]
    IN
    /\ c.pc = "send"
    /\ IF ~HasCredential
       THEN /\ calls' = [calls EXCEPT ![s] =
                   Raised([c EXCEPT !.lastSend = "nocred"],
                          Surface(c.k, "write",
                                  Exc("ConfigurationError", "no credential")))]
            /\ UNCHANGED <<pool, broadcasts>>
       ELSE /\ broadcasts' = broadcasts + 1
            /\ CASE ans = "accepted" ->
                      /\ pool' = pool \cup {c.sentNonce}
                      /\ calls' = [calls EXCEPT ![s] = AfterSend(c1, HashOf(c))]
                 [] ans = "rejected" /\ ~Retryable(ans) ->
                      /\ calls' = [calls EXCEPT ![s] =
                             Raised(c1, Surface(c.k, "write",
                                                Exc("TxSendError", "rejected")))]
                      /\ UNCHANGED pool
                 [] ans # "accepted" /\ Retryable(ans) ->
                      /\ calls' = [calls EXCEPT ![s] =
                             LET c2 == [c1 EXCEPT !.sendTransients = @ + 1] IN
                             IF MayRetry(c2.sends) THEN c2
                             ELSE Raised(c2, Surface(c.k, "write",
                                                     Exc("RpcError", "timeout")))]
                      /\ UNCHANGED pool
                 [] OTHER ->
                      /\ calls' = [calls EXCEPT ![s] = AfterSend(c1, NoneVal)]
                      /\ UNCHANGED pool
    /\ UNCHANGED <<settings, conn, txCount, nextNonce, issued, startCount>>

\* The chain mines the pending transaction that carries the next nonce
Mine ==
    /\ txCount \in pool
    /\ txCount' = txCount + 1
    /\ pool' = pool \ {txCount}
    /\ UNCHANGED <<settings, conn, calls, nextNonce, issued, broadcasts, startCount>>

----------------------------------------------------------------------------
(* Connector writes and reads *)

Usable(k) == Loaded /\ conn[k].state \in {"constructed", "created"}
Free(s) == calls[s].pc \in {"idle", "done"}

\* Cyclo.deposit_sflr / redeem_sflr, Kinetic.supply / redeem, Sceptre.stake_flr /
\* request_withdrawal / claim_withdrawal, SparkDEX.swap_exact_*_single: up to the
\* first await inside build_transaction
ClientWrite_AccountFirst(s, k, op, amount) ==
    LET c0 == [NewCall(k, op, "write") EXCEPT !.amount = amount] IN
    /\ k \in {"Cyclo", "Kinetic", "Sceptre", "SparkDEX"}
    /\ op \in WriteOps(k)
    /\ Usable(k) /\ Free(s)
    /\ WritesBegun < MaxWrites
    /\ calls' = [calls EXCEPT ![s] =
           IF k = "SparkDEX" /\ settings.account_address = NoneVal
           THEN Raised(c0, Exc("ValueError", "Account not initialized"))
           ELSE IF HandleOf(k, op) = NoneVal THEN Raised(c0, NotInitialized(k))
           ELSE build_transaction(c0, settings.account_address,
                                  TxValue(k, op, amount))]
    /\ UNCHANGED <<settings, conn, txCount, pool, nextNonce, issued, broadcasts,
                   startCount>>

ClientWrite(s, k, op, amount) ==
    LET c0 == [NewCall(k, op, "write") EXCEPT !.amount = amount] IN
    /\ k \in {"Cyclo", "Kinetic", "Sceptre", "SparkDEX"}
    /\ op \in WriteOps(k)
    /\ Usable(k) /\ Free(s)
    /\ WritesBegun < MaxWrites
    /\ calls' = [calls EXCEPT ![s] =
           IF HandleOf(k, op) = NoneVal THEN Raised(c0, NotInitialized(k))
           ELSE IF k = "SparkDEX" /\ settings.account_address = NoneVal
           THEN Raised(c0, Exc("ValueError", "Account not initialized"))
           ELSE build_transaction(c0, settings.account_address,
                                  TxValue(k, op, amount))]
    /\ UNCHANGED <<settings, conn, txCount, pool, nextNonce, issued, broadcasts,
                   startCount>>

\* The nonce a Firelight write puts in its transaction:
\* self.w3.eth.get_transaction_count(self.account_address)
FirelightNonce == txCount

\* Firelight.stake_xrp / request_withdrawal / claim_withdrawal: the connector
\* reads the transaction count, lets the contract function build the
\* transaction (the node answers its gas estimation with g) and hands it to
\* _build_sign_send_tx
FirelightWrite(s, op, amount, g, gas) ==
    LET k  == "Firelight"
        c0 == [NewCall(k, op, "write") EXCEPT !.amount = amount]
        c1 == [c0 EXCEPT !.attempts = 1, !.lastBuild = g,
                         !.transients = IF g = "transient" THEN 1 ELSE 0,
                         !.txFrom = settings.account_address]
    IN
    /\ op \in WriteOps(k)
    /\ g \in {"ok", "transient", "revert", Unawaited}
    /\ Usable(k) /\ Free(s)
    /\ WritesBegun < MaxWrites
    /\ IF HandleOf(k, op) = NoneVal
       THEN /\ calls' = [calls EXCEPT ![s] = Raised(c0, NotInitialized(k))]
            /\ UNCHANGED issued
       ELSE IF g = "ok"
       THEN /\ calls' = [calls EXCEPT ![s] =
                   [c1 EXCEPT !.pc = "send", !.builtBy = "connector",
                              !.txNonce = FirelightNonce, !.txGas = gas,
                              !.sentNonce = FirelightNonce, !.sendCalls = 1, !.sentBy = "_build_sign_send_tx"]]
            /\ issued' = Append(issued, FirelightNonce)
       ELSE /\ calls' = [calls EXCEPT ![s] =
                   Raised(c1, IF g = "revert"
                              THEN Exc("ContractLogicError", "revert")
                              ELSE IF g = Unawaited
                              THEN Exc("TypeError", "coroutine")
                              ELSE Exc("RpcError", "unreachable"))]
            /\ UNCHANGED issued
    /\ UNCHANGED <<settings, conn, txCount, pool, nextNonce, broadcasts, startCount>>

\* What a getter does with the node's answer o (and value v) to its contract
\* call: the decoded value is returned, a failure is raised
ReadResult_ZeroOnFailure(c, o, v) ==
    IF o = "ok" THEN ReturnedValue([c EXCEPT !.rpcValue = v], v)
    ELSE ReturnedValue(c, 0)

ReadResult(c, o, v) ==
    IF o = "ok" THEN ReturnedValue([c EXCEPT !.rpcValue = v], v)
    ELSE IF o = "revert"
    THEN Raised(c, Surface(c.k, "read", Exc("ContractLogicError", "revert")))
    ELSE IF o = Unawaited
    THEN Raised(c, Surface(c.k, "read", Exc("TypeError", "coroutine")))
    ELSE Raised(c, Surface(c.k, "read", Exc("RpcError", "unreachable")))

Read_ReservesNonce(s, k, op, o, v) ==
    /\ op \in ReadOps(k)
    /\ Usable(k) /\ Free(s)
    /\ calls' = [calls EXCEPT ![s] = ReadResult(NewCall(k, op, "read"), o, v)]
    /\ nextNonce' = nextNonce + 1
    /\ nextNonce < MaxWrites
    /\ UNCHANGED <<settings, conn, txCount, pool, issued, broadcasts, startCount>>

\* Every getter of Cyclo, Kinetic, Sceptre, SparkDEX and Firelight: the handle
\* check, then one contract call answered by the node with o (and the value v)
Read_DropsHandleOnError(s, k, op, o, v) ==
    LET c0 == NewCall(k, op, "read") IN
    /\ op \in ReadOps(k)
    /\ o = Unawaited => k = "Firelight"
    /\ Usable(k) /\ Free(s)
    /\ calls' = [calls EXCEPT ![s] =
           IF HandleOf(k, op) = NoneVal THEN Raised(c0, NotInitialized(k))
           ELSE ReadResult(c0, o, v)]
    /\ conn' = IF o = "ok" THEN conn ELSE [conn EXCEPT ![k].h1 = NoneVal]
    /\ UNCHANGED <<settings, txCount, pool, nextNonce, issued, broadcasts, startCount>>

Read(s, k, op, o, v) ==
    LET c0 == NewCall(k, op, "read") IN
    /\ op \in ReadOps(k)
    /\ o = Unawaited => k = "Firelight"
    /\ Usable(k) /\ Free(s)
    /\ calls' = [calls EXCEPT ![s] =
           IF HandleOf(k, op) = NoneVal THEN Raised(c0, NotInitialized(k))
           ELSE ReadResult(c0, o, v)]
    /\ UNCHANGED <<settings, conn, txCount, pool, nextNonce, issued, broadcasts,
                   startCount>>

----------------------------------------------------------------------------
(* stargate.py: the getters of the Stargate connector *)

\* Text is a sequence of one-character strings
ascii_lowercase == <<"a", "b", "c", "d", "e", "f", "g", "h", "i", "j", "k", "l", "m", "n", "o", "p", "q", "r", "s", "t", "u", "v", "w", "x", "y", "z">>
ascii_uppercase == <<"A", "B", "C", "D", "E", "F", "G", "H", "I", "J", "K", "L", "M", "N", "O", "P", "Q", "R", "S", "T", "U", "V", "W", "X", "Y", "Z">>

LetterIndex(alphabet, ch) == CHOOSE i \in 1..Len(alphabet) : alphabet[i] = ch
IsIn(alphabet, ch) == \E i \in 1..Len(alphabet) : alphabet[i] = ch

\* str.upper() and str.lower(), character by character; a character that is
\* no letter stays as it is
upper(t) ==
    [i \in 1..Len(t) |->
        IF IsIn(ascii_lowercase, t[i])
        THEN ascii_uppercase[LetterIndex(ascii_lowercase, t[i])] ELSE t[i]]

lower_NoChange(t) == t

lower(t) ==
    [i \in 1..Len(t) |->
        IF IsIn(ascii_uppercase, t[i])
        THEN ascii_lowercase[LetterIndex(ascii_uppercase, t[i])] ELSE t[i]]

\* str(x) of a table field: an address is its own text, None becomes the text
\* 'None', which is no longer the null value
Str(x) == IF x = NoneVal THEN "str(None)" ELSE x

\* Stargate.CHAINS: the keys, in order, with their spelling, and the endpoint
\* IDs
ChainNames == <<"ethereum", "bnb_chain", "avalanche", "polygon", "arbitrum", "optimism", "base", "linea", "scroll", "mantle">>

ChainSpelling(name) ==
    CASE name = "ethereum" -> <<"e", "t", "h", "e", "r", "e", "u", "m">>
      [] name = "bnb_chain" -> <<"b", "n", "b", "_", "c", "h", "a", "i", "n">>
      [] name = "avalanche" -> <<"a", "v", "a", "l", "a", "n", "c", "h", "e">>
      [] name = "polygon" -> <<"p", "o", "l", "y", "g", "o", "n">>
      [] name = "arbitrum" -> <<"a", "r", "b", "i", "t", "r", "u", "m">>
      [] name = "optimism" -> <<"o", "p", "t", "i", "m", "i", "s", "m">>
      [] name = "base" -> <<"b", "a", "s", "e">>
      [] name = "linea" -> <<"l", "i", "n", "e", "a">>
      [] name = "scroll" -> <<"s", "c", "r", "o", "l", "l">>
      [] name = "mantle" -> <<"m", "a", "n", "t", "l", "e">>

CHAINS ==
    [name \in Range(ChainNames) |->
        CASE name = "ethereum" -> 30101
          [] name = "bnb_chain" -> 30102
          [] name = "avalanche" -> 30106
          [] name = "polygon" -> 30109
          [] name = "arbitrum" -> 30110
          [] name = "optimism" -> 30111
          [] name = "base" -> 30184
          [] name = "linea" -> 30183
          [] name = "scroll" -> 30214
          [] name = "mantle" -> 30181]

TokenSpelling(token) ==
    CASE token = "ETH"  -> <<"E", "T", "H">>
      [] token = "USDC" -> <<"U", "S", "D", "C">>
      [] token = "USDT" -> <<"U", "S", "D", "T">>

\* Stargate.get_oft_address(token)
get_oft_address(c, token) ==
    LET contracts == IF settings.is_testnet THEN settings.coston2 ELSE settings.flare
        token_upper == upper(token)
        c1 == [c EXCEPT !.arg = token]
    IN
    IF token_upper = TokenSpelling("ETH")
    THEN [c1 EXCEPT !.pc = "done", !.status = "returned",
                    !.text = Str(contracts["stargate_eth_oft"])]
    ELSE IF token_upper = TokenSpelling("USDC")
    THEN [c1 EXCEPT !.pc = "done", !.status = "returned",
                    !.text = Str(contracts["stargate_usdc_oft"])]
    ELSE IF token_upper = TokenSpelling("USDT")
    THEN [c1 EXCEPT !.pc = "done", !.status = "returned",
                    !.text = Str(contracts["stargate_usdt_oft"])]
    ELSE Raised(c1, Exc("StargateError", "Unsupported token"))

\* Stargate.get_chain_endpoint(chain)
get_chain_endpoint(c, chain) ==
    LET chain_lower == lower(chain)
        c1 == [c EXCEPT !.arg = chain]
    IN
    IF \E name \in Range(ChainNames) : ChainSpelling(name) = chain_lower
    THEN ReturnedValue(c1, CHAINS[CHOOSE name \in Range(ChainNames) :
                                      ChainSpelling(name) = chain_lower])
    ELSE Raised(c1, Exc("StargateError", "Unsupported chain"))

\* Stargate.FLARE_ENDPOINT_ID
FLARE_ENDPOINT_ID == 30295

\* Stargate.get_supported_tokens(): the literal list
get_supported_tokens == <<"ETH", "USDC", "USDT">>

\* Stargate.get_supported_chains(): list(self.CHAINS.keys())
get_supported_chains_Short == SubSeq(ChainNames, 1, Len(ChainNames) - 1)

get_supported_chains == ChainNames

\* Stargate.get_bridge_info()
get_bridge_info(c) ==
    LET contracts == IF settings.is_testnet THEN settings.coston2 ELSE settings.flare IN
    [c EXCEPT !.pc = "done", !.status = "returned",
              !.info = [ network |-> "Flare",
                         endpoint_id |-> FLARE_ENDPOINT_ID,
                         token_messaging |-> Str(contracts["stargate_token_messaging"]),
                         treasurer |-> Str(contracts["stargate_treasurer"]),
                         supported_tokens |-> get_supported_tokens,
                         supported_chains |-> get_supported_chains ]]

\* One call of a getter without arguments of a Stargate instance
StargateInfo(s, op) ==
    LET c0 == NewCall("Stargate", op, "read") IN
    /\ Usable("Stargate") /\ Free(s)
    /\ op \in {"get_supported_tokens", "get_supported_chains", "get_bridge_info"}
    /\ calls' = [calls EXCEPT ![s] =
           CASE op = "get_supported_tokens" ->
                    [c0 EXCEPT !.pc = "done", !.status = "returned",
                               !.list = get_supported_tokens]
             [] op = "get_supported_chains" ->
                    [c0 EXCEPT !.pc = "done", !.status = "returned",
                               !.list = get_supported_chains]
             [] OTHER -> get_bridge_info(c0)]
    /\ UNCHANGED <<settings, conn, txCount, pool, nextNonce, issued, broadcasts,
                   startCount>>

\* stargate.<name> on an instance: the class defines FLARE_ENDPOINT_ID and
\* CHAINS, __init__ sets settings; a name that is defined nowhere raises
\* AttributeError
AttributeNames == {"FLARE_ENDPOINT_ID", "STARGATE_ETH", "STARGATE_USDC"}

getattr(c, name) ==
    IF name = "FLARE_ENDPOINT_ID" THEN ReturnedValue(c, FLARE_ENDPOINT_ID)
    ELSE Raised(c, Exc("AttributeError", "object has no attribute"))

GetAttr(s, name) ==
    /\ Usable("Stargate") /\ Free(s)
    /\ name \in AttributeNames
    /\ calls' = [calls EXCEPT ![s] = getattr(NewCall("Stargate", name, "attr"), name)]
    /\ UNCHANGED <<settings, conn, txCount, pool, nextNonce, issued, broadcasts,
                   startCount>>

\* One call of a getter of a Stargate instance (the getters are synchronous
\* and read only the settings and the class constants)
StargateGet(s, op, text) ==
    LET c0 == NewCall("Stargate", op, "read") IN
    /\ Usable("Stargate") /\ Free(s)
    /\ op \in {"get_oft_address", "get_chain_endpoint"}
    /\ calls' = [calls EXCEPT ![s] =
           IF op = "get_oft_address" THEN get_oft_address(c0, text)
           ELSE get_chain_endpoint(c0, text)]
    /\ UNCHANGED <<settings, conn, txCount, pool, nextNonce, issued, broadcasts,
                   startCount>>

----------------------------------------------------------------------------
(* Specifications *)

InitWith(inputs, counts) ==
    /\ settings \in inputs
    /\ conn = [k \in Kinds |-> NoConnector]
    /\ calls = [s \in Slots |-> IdleCall]
    /\ txCount \in counts
    /\ startCount = txCount
    /\ nextNonce = txCount
    /\ pool = {}
    /\ issued = <<>>
    /\ broadcasts = 0

\* The mainnet tables the runs start from: the default one, and tables with
\* one or two fields unset
InitFlareTables ==
    { FlareDefault,
      [FlareDefault EXCEPT !["stargate_usdt_oft"] = NoneVal],
      [FlareDefault EXCEPT !["kinetic_ksflr"] = NoneVal, !["stargate_eth_oft"] = NoneVal] }

\* One caller that awaits each call before it issues the next, on one
\* connector of any class, under every kind of settings input
Init ==
    InitWith(SettingsInputs(BOOLEAN, {NoneVal, AccountAddr}, {NoneVal, PrivateKey},
                            {1, DefaultMaxRetries}, {0, DefaultRetryDelay},
                            InitFlareTables,
                            {[f \in Fields |->
                                 IF f \in {"kinetic_ksflr", "sparkdex_swap_router"}
                                 THEN TestnetAddr(f) ELSE NoneVal]}),
             {0})

OnlyConnector(k) == \A j \in Kinds \ {k} : conn[j].state = "absent"

Next ==
    \/ LoadSettings
    \/ SetFlareAddress("sparkdex_swap_router", NoneVal)
    \/ \E which \in {"h1", "h2"} : ClearHandle("Cyclo", which)
    \/ \E k \in Kinds : OnlyConnector(k) /\ Construct(k)
    \/ \E k \in Kinds, abi_ok \in BOOLEAN : OnlyConnector(k) /\ Create(k, abi_ok)
    \/ \E k \in Kinds : \E op \in WriteOps(k), a \in Amounts : ClientWrite(1, k, op, a)
    \/ \E op \in WriteOps("Firelight"), a \in Amounts,
          g \in GasOutcomes \cup {Unawaited},
          gas \in GasEstimates : FirelightWrite(1, op, a, g, gas)
    \/ \E g \in GasOutcomes, gas \in GasEstimates : BuildAttempt(1, g, gas)
    \/ \E o \in SendOutcomes : SendAttempt(1, o)
    \/ \E k \in Kinds : \E op \in ReadOps(k), o \in ReadOutcomes \cup {Unawaited} :
          \E v \in (IF o = "ok" THEN ReadVals ELSE {0}) : Read(1, k, op, o, v)
    \/ Mine

Spec == Init /\ [][Next]_vars

\* Several tasks of one process, each issuing a write or any number of reads,
\* concurrently on a Kinetic and a Firelight connector that share the account,
\* under the default settings with a credential
ConcKinds == {"Kinetic", "Firelight"}
ConcWrites == {"supply", "stake_xrp", "claim_withdrawal"}
ConcReads == {"get_balance", "get_stxrp_balance"}

InitConc ==
    InitWith(SettingsInputs({FALSE}, {AccountAddr}, {PrivateKey}, {DefaultMaxRetries},
                            {DefaultRetryDelay}, {FlareDefault}, {ContractAddresses}),
             0..MaxStartCount)

Idle(s) == calls[s].pc = "idle"
Reading(s) == Idle(s) \/ (calls[s].pc = "done" /\ calls[s].kind = "read")

NextConc ==
    \/ LoadSettings
    \/ \E k \in ConcKinds : Create(k, TRUE)
    \/ \E s \in Slots : \E op \in WriteOps("Kinetic") \cap ConcWrites :
          Idle(s) /\ ClientWrite(s, "Kinetic", op, 1)
    \/ \E s \in Slots : \E op \in WriteOps("Firelight") \cap ConcWrites,
          g \in {"ok", "revert"}, gas \in GasEstimates :
          Idle(s) /\ FirelightWrite(s, op, 1, g, gas)
    \/ \E s \in Slots : \E g \in {"ok", "revert"}, gas \in GasEstimates :
          BuildAttempt(s, g, gas)
    \/ \E s \in Slots : \E o \in {"accepted", "rejected"} : SendAttempt(s, o)
    \/ \E s \in Slots : \E k \in ConcKinds : \E op \in ReadOps(k) \cap ConcReads,
          o \in {"ok", "transient"} :
          Reading(s) /\ Read(s, k, op, o, 7)
    \/ Mine

SpecConc == InitConc /\ [][NextConc]_vars

\* A node that answers every gas estimation with a transient failure; each
\* awaited request is bounded by the configured timeout, so a build in
\* progress always gets its next answer
NextRetry ==
    \/ LoadSettings
    \/ \E k \in Kinds \ {"Firelight", "Stargate"} : OnlyConnector(k) /\ Create(k, TRUE)
    \/ \E k \in Kinds : \E op \in WriteOps(k), a \in Amounts : ClientWrite(1, k, op, a)
    \/ \E gas \in GasEstimates : BuildAttempt(1, "transient", gas)

SpecRetry ==
    /\ Init
    /\ [][NextRetry]_vars
    /\ WF_vars(\E gas \in GasEstimates : BuildAttempt(1, "transient", gas))

\* The letter-case variants of a word: every letter as it is or in the other
\* case
OtherCase(ch) ==
    IF IsIn(ascii_lowercase, ch) THEN ascii_uppercase[LetterIndex(ascii_lowercase, ch)]
    ELSE IF IsIn(ascii_uppercase, ch) THEN ascii_lowercase[LetterIndex(ascii_uppercase, ch)]
    ELSE ch

CaseVariants(w) ==
    { [i \in 1..Len(w) |-> IF flip[i] THEN OtherCase(w[i]) ELSE w[i]] :
        flip \in [1..Len(w) -> BOOLEAN] }

\* The variants of a word with at most MaxFlips letters, or with all letters,
\* in the other case
NearVariants(w) ==
    { v \in CaseVariants(w) :
        LET changed == Cardinality({ i \in 1..Len(w) : v[i] # w[i] })
            letters == Cardinality({ i \in 1..Len(w) : OtherCase(w[i]) # w[i] })
        IN  changed <= MaxFlips \/ changed = letters }

\* The token symbols and chain names the getters are called with: the tokens
\* in every letter case, the chains in lowercase, in uppercase and with up to
\* MaxFlips capital letters, and unsupported ones
TokenInputs ==
    UNION { CaseVariants(TokenSpelling(t)) : t \in {"ETH", "USDC", "USDT"} }
        \cup { <<"B", "T", "C">>, <<"b", "t", "c">>, <<"E", "T">>, <<"E", "T", "H", "H">>, <<"U", "S", "D">>, <<"U", "s", "D", "x">>, <<>>, <<"X", "E", "T", "H">>, <<"E", " ", "T", " ", "H">> }

ChainInputs ==
    UNION { NearVariants(ChainSpelling(n)) : n \in Range(ChainNames) }
        \cup { <<"s", "o", "l", "a", "n", "a">>, <<"S", "O", "L", "A", "N", "A">>, <<"e", "t", "h">>, <<"e", "t", "h", "e", "r", "e", "u", "m", " ">>, <<"b", "n", "b", "c", "h", "a", "i", "n">>, <<"b", "n", "b", "-", "c", "h", "a", "i", "n">>, <<"f", "l", "a", "r", "e">>, <<>>, <<"b", "a", "s">>, <<"b", "a", "s", "e", "e">> }

\* A Stargate instance, created or bare, on mainnet or testnet settings, whose
\* getters are called one after the other
InitStargate ==
    InitWith(SettingsInputs(BOOLEAN, {NoneVal}, {NoneVal}, {DefaultMaxRetries},
                            {DefaultRetryDelay}, {FlareDefault},
                            {ContractAddresses, Coston2Full}),
             {0})

NextStargate ==
    \/ LoadSettings
    \/ Construct("Stargate")
    \/ Create("Stargate", TRUE)
    \/ \E token \in TokenInputs : StargateGet(1, "get_oft_address", token)
    \/ \E chain \in ChainInputs : StargateGet(1, "get_chain_endpoint", chain)
    \/ \E op \in {"get_supported_tokens", "get_supported_chains", "get_bridge_info"} :
          StargateInfo(1, op)
    \/ \E name \in AttributeNames : GetAttr(1, name)

SpecStargate == InitStargate /\ [][NextStargate]_vars

\* create of each connector class, once per run, under mainnet and testnet
\* settings with every kind of Coston2 table, with and without the ABI
\* definitions in the catalog
InitCreate ==
    InitWith(SettingsInputs(BOOLEAN, {NoneVal, AccountAddr}, {NoneVal, PrivateKey},
                            {DefaultMaxRetries}, {DefaultRetryDelay},
                            InitFlareTables, Coston2Tables),
             {0})

NextCreate ==
    \/ LoadSettings
    \/ \E k \in Kinds, abi_ok \in BOOLEAN : OnlyConnector(k) /\ Create(k, abi_ok)

SpecCreate == InitCreate /\ [][NextCreate]_vars

----------------------------------------------------------------------------
(* Properties *)

\* The calls that have ended
Done(s) == calls[s].pc = "done"
DoneWrite(s) == Done(s) /\ calls[s].kind = "write"
DoneRead(s) == Done(s) /\ calls[s].kind = "read"
\* The calls whose transaction has been built
HasTx(s) == calls[s].txNonce >= 0

\* C1: the nonces placed in the transactions built by the account's N write
\* calls are exactly n0 .. n0+N-1, with no nonce used twice and none skipped
C1_NoncesExactlyConsecutive ==
    /\ Cardinality(Range(issued)) = Len(issued)
    /\ Range(issued) = startCount .. (startCount + Len(issued) - 1)

\* C2: every write of every connector gets its transaction from
\* build_transaction and submits it through sign_and_send_transaction; no
\* connector reads the nonce or assembles the transaction itself
C2_WritesGoThroughClient ==
    \A s \in Slots :
        /\ HasTx(s) => calls[s].builtBy = "build_transaction"
        /\ calls[s].sendCalls > 0 => calls[s].sentBy = "sign_and_send_transaction"

\* The addresses of the mainnet table
MainnetAddresses == { settings.flare[f] : f \in Fields }

\* C3: every contract address a connector created from settings binds is the
\* entry of the table selected by is_testnet; with is_testnet = TRUE no
\* connector binds a mainnet address
C3_HandlesFromSelectedTable ==
    \A k \in Kinds \ {"Stargate"} :
        conn[k].state = "created" =>
            /\ conn[k].h1 = SelectedTable(settings)[HandleField(k)]
            /\ k = "Cyclo" =>
                   conn[k].h2 = SelectedTable(settings)["cyclo_cysflr_receipt"]
            /\ settings.is_testnet =>
                   {conn[k].h1, conn[k].h2} \cap MainnetAddresses = {}

\* The calls that failed in the Chain Client or in the node: a build attempt, a
\* broadcast or a read call that did not succeed
ChainFailure(s) ==
    /\ Done(s) /\ calls[s].status = "raised"
    /\ calls[s].msg \in {"no credential", "timeout", "revert", "rejected", "unreachable"}

\* C4: every Chain Client or RPC failure of an operation of Cyclo, Kinetic,
\* Sceptre, Firelight or Stargate reaches the caller as the connector's own
\* protocol error with the original cause attached
C4_FailuresTaggedWithCause ==
    \A s \in Slots :
        (ChainFailure(s) /\ calls[s].k # "SparkDEX") =>
            /\ calls[s].err = ProtocolError(calls[s].k)
            /\ calls[s].cause # "none"

\* The error classes that stand for a missing credential
CredentialErrors == {"TxBuildError", "ConfigurationError", "ValueError"}

\* C5: without a credential every write of an initialized connector fails
\* with a configuration/build error, returns no hash and nothing is ever
\* broadcast, while a read whose contract call the node answers returns the
\* value
C5_ReadOnlyWithoutCredential ==
    ~HasCredential =>
        /\ broadcasts = 0
        /\ pool = {}
        /\ \A s \in Slots :
              LET c == calls[s] IN
              /\ (DoneWrite(s) /\ HandleOf(c.k, c.op) # NoneVal) =>
                    /\ c.status = "raised"
                    /\ c.hash = "none"
                    /\ c.sends = 0
                    /\ {c.err, c.cause} \cap CredentialErrors # {}
              /\ (DoneRead(s) /\ c.rpcValue \in ReadVals) =>
                    (c.status = "returned" /\ c.value = c.rpcValue)

\* What build_transaction does on a client with the attempt budget 3 when
\* the gas estimation fails transiently twice and then succeeds
ThirdAttemptSucceeds ==
    \A s \in Slots :
        LET c == calls[s] IN
        c.builds = 1 =>
            /\ c.attempts <= settings.max_retries
            /\ (c.transients = 2 /\ c.attempts = 2) => c.pc = "build"
            /\ (c.transients = 2 /\ c.lastBuild = "ok") =>
                  /\ c.attempts = 3
                  /\ c.builtBy = "build_transaction"
                  /\ c.txNonce >= 0
                  /\ c.txGas \in GasEstimates
                  /\ c.pc \in {"send", "done"}
                  /\ "TxBuildError" \notin {c.err, c.cause}

\* C6: a Chain Client is constructed with max_retries = 3 and
\* retry_delay = 0, and on it a build_transaction whose gas estimation fails
\* transiently twice and then succeeds, succeeds on the 3rd attempt with the
\* returned gas, after exactly 3 attempts
C6_BuildSucceedsOnThirdAttempt ==
    (settings.state # "input" /\ settings.max_retries = 3 /\ settings.retry_delay = 0)
        => (Loaded /\ ThirdAttemptSucceeds)

\* C7: a non-transient failure (a revert at gas estimation, a rejected
\* broadcast) is not retried: the operation ends with the error at that
\* attempt, whatever max_retries is, and a connector invokes build_transaction
\* and sign_and_send_transaction at most once per call
C7_NonTransientNotRetried ==
    \A s \in Slots :
        LET c == calls[s] IN
        /\ c.lastBuild = "revert" =>
              /\ c.pc = "done" /\ c.status = "raised"
              /\ c.attempts = c.transients + 1
              /\ c.sends = 0 /\ c.hash = "none"
        /\ c.lastSend = "rejected" =>
              /\ c.pc = "done" /\ c.status = "raised"
              /\ c.sends = c.sendTransients + 1
              /\ c.hash = "none"
        /\ c.builds <= 1 /\ c.sendCalls <= 1

\* C7 witness: with max_retries = 3 a build_transaction ended at its first
\* attempt, which the node answered with a revert
C7_Witness ==
    /\ settings.max_retries = 3
    /\ \E s \in Slots :
          /\ calls[s].builds = 1 /\ calls[s].lastBuild = "revert"
          /\ calls[s].attempts = 1 /\ calls[s].status = "raised"

\* C8: under a node that fails transiently forever every build_transaction
\* makes at most max_retries attempts and then ends with a terminal error
C8_BuildTerminates ==
    /\ [](\A s \in Slots : calls[s].attempts <= settings.max_retries)
    /\ \A s \in Slots :
          (calls[s].pc = "build") ~>
              (/\ calls[s].pc = "done" /\ calls[s].status = "raised"
               /\ calls[s].attempts = settings.max_retries
               /\ "TxBuildError" \in {calls[s].err, calls[s].cause})

\* C8 witness: a build_transaction gave up after max_retries = 3 transient
\* failures
C8_Witness ==
    \E s \in Slots :
        /\ settings.max_retries = 3
        /\ calls[s].pc = "done" /\ calls[s].msg = "timeout"
        /\ calls[s].transients = 3 /\ calls[s].attempts = 3

\* C9: a write returns a hash only if its last build attempt and its broadcast
\* succeeded, a read returns a value only if the contract call succeeded and
\* then that value; a failed interaction ends in an error, never in a value
C9_NoSuccessOnFailure ==
    \A s \in Slots :
        LET c == calls[s] IN
        /\ (DoneWrite(s) /\ c.status = "returned") =>
              /\ c.lastBuild = "ok" /\ c.lastSend = "accepted"
              /\ c.hash \in {HashOf(c), hex(HashOf(c))} /\ c.txNonce >= 0
        /\ (DoneRead(s) /\ c.status = "returned") =>
              /\ c.rpcValue \in ReadVals /\ c.value = c.rpcValue
        /\ (c.lastBuild \in {"revert", "transient", "empty", "nocred"}
              \/ c.lastSend \in {"rejected", "transient", "empty", "nocred"}) =>
              (c.pc = "done" => c.status = "raised" /\ c.hash = "none")
        /\ c.status = "raised" => (c.hash = "none" /\ c.value = -1)

\* C9 witness: a build that was retried and then reverted has ended in an error
C9_Witness ==
    \E s \in Slots :
        /\ calls[s].transients = 2 /\ calls[s].lastBuild = "revert"
        /\ calls[s].status = "raised" /\ calls[s].hash = "none"

\* A step in which a getter ran in some slot
ReadStep ==
    \E s \in Slots : calls'[s] # calls[s] /\ calls'[s].kind = "read"

\* C10: a read leaves the nonce counter, the chain's account state, the
\* settings (with the signing key) and the connectors unchanged, and so the
\* transactions and nonces of the writes in the other slots
C10_ReadsChangeNothing ==
    [][ReadStep =>
          /\ UNCHANGED <<nextNonce, txCount, pool, issued, broadcasts, settings, conn>>
          /\ \A s \in Slots : calls[s].kind = "write" => calls'[s] = calls[s]]_vars

\* C10 witness: a read has ended while a write of another slot holds a built
\* transaction that is not yet broadcast
C10_Witness ==
    \E s, t \in Slots :
        /\ DoneRead(s) /\ calls[s].status = "returned"
        /\ calls[t].pc = "send" /\ calls[t].txNonce = nextNonce - 1

\* C11: a transaction is built, then signed and submitted, in that order and
\* once each: sign_and_send_transaction is invoked only with the transaction
\* the build returned, a broadcast happens only inside that invocation, and a
\* hash reaches the caller only after the node accepted the submission
C11_BuiltSignedSubmitted ==
    \A s \in Slots :
        LET c == calls[s] IN
        /\ c.sendCalls > 0 =>
              /\ c.lastBuild = "ok" /\ c.txNonce >= 0 /\ c.txGas \in GasEstimates
              /\ c.sentNonce = c.txNonce
              /\ c.sendCalls = 1
        /\ c.sends > 0 => c.sendCalls = 1
        /\ c.pc = "send" => (c.sendCalls = 1 /\ c.hash = "none")
        /\ c.hash # "none" =>
              /\ c.pc = "done" /\ c.lastSend = "accepted" /\ c.sends > 0
              /\ c.hash \in {HashOf(c), hex(HashOf(c))}
              /\ (c.sentNonce \in pool \/ c.sentNonce < txCount)

\* C11 witness: a Kinetic write went through build, sign-and-send and returned
\* the hash of its submitted transaction
C11_Witness ==
    \E s \in Slots :
        /\ calls[s].k = "Kinetic" /\ calls[s].status = "returned"
        /\ calls[s].builds = 1 /\ calls[s].sendCalls = 1
        /\ calls[s].hash = HashOf(calls[s]) /\ calls[s].sentNonce \in pool

\* The settings input names a mainnet table with a field unset
MainnetFieldUnset == settings.state = "input" /\ MissingFlareFields(settings.flare) # {}

\* C12: constructing the settings with a mainnet address field unset fails
\* with an error that names the (first) missing field, and from then on no
\* connector exists and no operation runs; unset testnet fields do not make
\* the construction fail
C12_MissingMainnetFieldFailsAtLoad ==
    /\ [][MainnetFieldUnset =>
             /\ settings'.state = "invalid"
             /\ settings'.error =
                   "'" \o FirstMissing(settings.flare) \o "' must be set for mainnet contracts"
             /\ FirstMissing(settings.flare) \in MissingFlareFields(settings.flare)]_vars
    /\ [][(settings.state = "input" /\ MissingFlareFields(settings.flare) = {}
             /\ settings.max_retries > 0 /\ settings.retry_delay > 0
             /\ MissingFlareFields(settings.coston2) # {})
          => settings'.state = "loaded"]_vars
    /\ [](settings.state # "loaded" =>
             /\ \A k \in Kinds : conn[k].state = "absent"
             /\ \A s \in Slots : calls[s].pc = "idle")

\* C12 witness: a table with two fields unset was refused, naming kinetic_ksflr
C12_Witness ==
    /\ settings.state = "invalid"
    /\ MissingFlareFields(settings.flare) = {"kinetic_ksflr", "stargate_eth_oft"}
    /\ settings.error = "'kinetic_ksflr' must be set for mainnet contracts"

\* C13: once the settings are constructed they do not change and the mainnet
\* table has every address field set
C13_MainnetTableStaysPopulated ==
    Loaded => MissingFlareFields(settings.flare) = {}

\* The addresses a connector of class k needs
NeededFields(k) ==
    CASE k = "Cyclo"     -> {"cyclo_cysflr_vault", "cyclo_cysflr_receipt"}
      [] k = "Stargate"  -> { "stargate_token_messaging", "stargate_treasurer",
                              "stargate_eth_oft", "stargate_usdc_oft", "stargate_usdt_oft" }
      [] OTHER           -> {HandleField(k)}

\* The calls that went to the chain: a build, a send or a contract call
Interacted(c) ==
    c.builds > 0 \/ c.attempts > 0 \/ c.sendCalls > 0 \/ c.rpcValue >= 0

\* The handle the operation of call c needs
RequiredHandle(c) ==
    IF c.k = "Cyclo" /\ c.op = "get_receipt_balance" THEN conn[c.k].h2 ELSE conn[c.k].h1

\* C14: create, called while an address the connector needs is unset in the
\* table selected by is_testnet, fails with a 'not configured' error and
\* yields no instance; no operation goes to the chain on an unset handle
C14_UnsetAddressFailsCreate ==
    /\ \A k \in Kinds :
          (/\ conn[k].state \in {"created", "failed"}
           /\ \E f \in NeededFields(k) : SelectedTable(settings)[f] = NoneVal)
          => (conn[k].state = "failed" /\ conn[k].msg = "not configured")
    /\ \A s \in Slots :
          (calls[s].pc # "idle" /\ Interacted(calls[s])) =>
              RequiredHandle(calls[s]) # NoneVal

\* C15: a write that returned has invoked build_transaction once and
\* sign_and_send_transaction once, one broadcast was accepted for it, and it
\* returned exactly the hash sign_and_send_transaction gave
C15_OneBuildOneSend ==
    \A s \in Slots :
        LET c == calls[s] IN
        (DoneWrite(s) /\ c.status = "returned") =>
            /\ c.builds = 1 /\ c.builtBy = "build_transaction"
            /\ c.sendCalls = 1 /\ c.sentBy = "sign_and_send_transaction"
            /\ c.sends - c.sendTransients = 1
            /\ c.hash = HashOf(c)

\* C16: when build_transaction returns no transaction the write fails with the
\* connector's 'Failed to build' error and sign_and_send_transaction is not
\* invoked
C16_NoTxNoSend ==
    \A s \in Slots :
        LET c == calls[s] IN
        (c.builds = 1 /\ c.lastBuild = "empty") =>
            /\ c.pc = "done" /\ c.status = "raised"
            /\ c.err = ProtocolError(c.k) /\ c.msg = "Failed to build"
            /\ c.sendCalls = 0 /\ c.sends = 0 /\ c.hash = "none"

\* C16 witness: a SparkDEX swap whose build_transaction returned nothing
C16_Witness ==
    \E s \in Slots :
        /\ calls[s].k = "SparkDEX" /\ calls[s].lastBuild = "empty"
        /\ calls[s].err = "FlareTxError" /\ calls[s].msg = "Failed to build"

\* C17: when sign_and_send_transaction returns no hash the write fails with
\* the connector's 'Failed to send' error, and no write returns an empty value
\* as its hash
C17_NoHashIsFailure ==
    \A s \in Slots :
        LET c == calls[s] IN
        /\ (c.sentBy = "sign_and_send_transaction" /\ c.lastSend = "empty") =>
              /\ c.pc = "done" /\ c.status = "raised"
              /\ c.err = ProtocolError(c.k) /\ c.msg = "Failed to send"
              /\ c.hash = "none"
        /\ (DoneWrite(s) /\ c.status = "returned") =>
              c.hash \notin {"none", NoneVal, hex(NoneVal), ""}

\* C17 witness: a Sceptre write whose sign_and_send_transaction returned nothing
C17_Witness ==
    \E s \in Slots :
        /\ calls[s].k = "Sceptre" /\ calls[s].lastSend = "empty"
        /\ calls[s].err = "SceptreError" /\ calls[s].msg = "Failed to send"

\* C18: an operation on a connector whose required handle is unset fails with
\* the connector's 'not initialized' error before any chain interaction, and
\* only then: Cyclo.get_receipt_balance looks at the receipt handle alone,
\* every other operation at the vault/contract handle alone
C18_NotInitializedBeforeChain ==
    \A s \in Slots :
        LET c == calls[s] IN
        c.pc # "idle" =>
            /\ RequiredHandle(c) = NoneVal =>
                  /\ c.pc = "done" /\ c.status = "raised"
                  /\ c.err \in {ProtocolError(c.k), "AttributeError"}
                  /\ c.msg \in {"not initialized", "not fully initialized"}
                  /\ ~Interacted(c)
                  /\ c.hash = "none" /\ c.value = -1
            /\ RequiredHandle(c) # NoneVal =>
                  c.msg \notin {"not initialized", "not fully initialized"}

\* C18 witness: on a Cyclo connector with the vault handle set and the receipt
\* handle unset, get_receipt_balance failed as not initialized
C18_Witness ==
    \E s \in Slots :
        /\ conn["Cyclo"].h1 # NoneVal /\ conn["Cyclo"].h2 = NoneVal
        /\ calls[s].k = "Cyclo" /\ calls[s].op = "get_receipt_balance"
        /\ calls[s].err = "CycloError" /\ calls[s].msg = "not initialized"

\* Text a spells word w in some letter case
SameWord(a, w) ==
    /\ Len(a) = Len(w)
    /\ \A i \in 1..Len(w) : a[i] = w[i] \/ a[i] = OtherCase(w[i])

\* The table field with the OFT address of a token
OftField(token) ==
    CASE token = "ETH"  -> "stargate_eth_oft"
      [] token = "USDC" -> "stargate_usdc_oft"
      [] token = "USDT" -> "stargate_usdt_oft"

\* C19: get_oft_address returns, for ETH, USDC and USDT written in any letter
\* case, the OFT address of that token in the table selected by is_testnet,
\* and raises StargateError 'Unsupported token' for every other symbol
C19_OftAddressAnyCase ==
    \A s \in Slots :
        LET c == calls[s]
            contracts == IF settings.is_testnet THEN settings.coston2 ELSE settings.flare
        IN
        (c.pc = "done" /\ c.op = "get_oft_address") =>
            /\ \A t \in {"ETH", "USDC", "USDT"} :
                  SameWord(c.arg, TokenSpelling(t)) =>
                      /\ c.status = "returned" /\ c.err = "none"
                      /\ c.text = contracts[OftField(t)]
                      /\ c.text # NoneVal
            /\ (\A t \in {"ETH", "USDC", "USDT"} : ~SameWord(c.arg, TokenSpelling(t))) =>
                  /\ c.status = "raised" /\ c.err = "StargateError"
                  /\ c.msg = "Unsupported token" /\ c.text = "none"

\* get_oft_address on a table whose OFT addresses are set: the address of the
\* token in any letter case, 'Unsupported token' otherwise
OftAddressOfConfiguredTable ==
    \A s \in Slots :
        LET c == calls[s]
            contracts == IF settings.is_testnet THEN settings.coston2 ELSE settings.flare
        IN
        (c.pc = "done" /\ c.op = "get_oft_address") =>
            /\ \A t \in {"ETH", "USDC", "USDT"} :
                  (SameWord(c.arg, TokenSpelling(t)) /\ contracts[OftField(t)] # NoneVal) =>
                      /\ c.status = "returned" /\ c.err = "none"
                      /\ c.text = contracts[OftField(t)]
            /\ (\A t \in {"ETH", "USDC", "USDT"} : ~SameWord(c.arg, TokenSpelling(t))) =>
                  /\ c.status = "raised" /\ c.err = "StargateError"
                  /\ c.msg = "Unsupported token" /\ c.text = "none"

\* 'uSdc' on a created testnet connector gave the Coston2 USDC address
OftAddressOfConfiguredTable_Reached ==
    \E s \in Slots :
        /\ settings.is_testnet /\ conn["Stargate"].state = "created"
        /\ calls[s].arg = <<"u", "S", "d", "c">>
        /\ calls[s].text = TestnetAddr("stargate_usdc_oft")

\* C20: get_chain_endpoint returns, for each of the 10 chains of CHAINS
\* written in any letter case, that chain's endpoint ID, and raises
\* StargateError 'Unsupported chain' for every other name
C20_ChainEndpointAnyCase ==
    /\ Cardinality(DOMAIN CHAINS) = 10
    /\ \A s \in Slots :
          LET c == calls[s] IN
          (c.pc = "done" /\ c.op = "get_chain_endpoint") =>
              /\ \A n \in DOMAIN CHAINS :
                    SameWord(c.arg, ChainSpelling(n)) =>
                        (c.status = "returned" /\ c.value = CHAINS[n] /\ c.err = "none")
              /\ SameWord(c.arg, ChainSpelling("ethereum")) => c.value = 30101
              /\ SameWord(c.arg, ChainSpelling("arbitrum")) => c.value = 30110
              /\ SameWord(c.arg, ChainSpelling("base")) => c.value = 30184
              /\ (\A n \in DOMAIN CHAINS : ~SameWord(c.arg, ChainSpelling(n))) =>
                    /\ c.status = "raised" /\ c.err = "StargateError"
                    /\ c.msg = "Unsupported chain" /\ c.value = -1

\* C20 witness: 'ARBITRUM' gave 30110 and 'oPtimism' gave 30111
C20_Witness ==
    \E s \in Slots :
        \/ /\ calls[s].arg = <<"A", "R", "B", "I", "T", "R", "U", "M">>
           /\ calls[s].status = "returned" /\ calls[s].value = 30110
        \/ /\ calls[s].arg = <<"o", "P", "t", "i", "m", "i", "s", "m">>
           /\ calls[s].status = "returned" /\ calls[s].value = 30111

\* C21: get_bridge_info reports network 'Flare', endpoint_id 30295, the
\* token_messaging and treasurer addresses of the table selected by
\* is_testnet, and the lists of get_supported_tokens() (exactly ETH, USDC,
\* USDT) and get_supported_chains() (exactly the 10 keys of CHAINS); on default
\* mainnet settings the addresses are the configured mainnet ones
C21_BridgeInfo ==
    \A s \in Slots :
        LET c == calls[s]
            contracts == IF settings.is_testnet THEN settings.coston2 ELSE settings.flare
        IN
        /\ (c.pc = "done" /\ c.op = "get_bridge_info") =>
              /\ c.status = "returned"
              /\ c.info.network = "Flare"
              /\ c.info.endpoint_id = 30295
              /\ c.info.token_messaging = contracts["stargate_token_messaging"]
              /\ c.info.token_messaging # NoneVal
              /\ c.info.treasurer = contracts["stargate_treasurer"]
              /\ c.info.treasurer # NoneVal
              /\ c.info.supported_tokens = <<"ETH", "USDC", "USDT">>
              /\ Range(c.info.supported_chains) = DOMAIN CHAINS
              /\ Len(c.info.supported_chains) = 10
              /\ (~settings.is_testnet /\ settings.flare = FlareDefault) =>
                    /\ c.info.token_messaging = "0x45d417612e177672958dC0537C45a8f8d754Ac2E"
                    /\ c.info.treasurer = "0x090194F1EEDc134A680e3b488aBB2D212dba8c01"
        /\ (c.pc = "done" /\ c.op = "get_supported_tokens") =>
              c.list = <<"ETH", "USDC", "USDT">>
        /\ (c.pc = "done" /\ c.op = "get_supported_chains") =>
              Range(c.list) = DOMAIN CHAINS /\ Len(c.list) = 10

\* get_bridge_info on a table whose messaging and treasurer addresses are set
BridgeInfoOfConfiguredTable ==
    \A s \in Slots :
        LET c == calls[s]
            contracts == IF settings.is_testnet THEN settings.coston2 ELSE settings.flare
        IN
        (/\ c.pc = "done" /\ c.op = "get_bridge_info"
         /\ contracts["stargate_token_messaging"] # NoneVal
         /\ contracts["stargate_treasurer"] # NoneVal) =>
              /\ c.status = "returned"
              /\ c.info.network = "Flare"
              /\ c.info.endpoint_id = 30295
              /\ c.info.token_messaging = contracts["stargate_token_messaging"]
              /\ c.info.treasurer = contracts["stargate_treasurer"]
              /\ c.info.supported_tokens = <<"ETH", "USDC", "USDT">>
              /\ Range(c.info.supported_chains) = DOMAIN CHAINS
              /\ Len(c.info.supported_chains) = 10

\* get_bridge_info on a created mainnet connector gave the mainnet addresses
BridgeInfoOfConfiguredTable_Reached ==
    \E s \in Slots :
        /\ ~settings.is_testnet /\ conn["Stargate"].state = "created"
        /\ calls[s].op = "get_bridge_info"
        /\ calls[s].info.treasurer = "0x090194F1EEDc134A680e3b488aBB2D212dba8c01"

\* C22: a connector returned by Stargate.create exposes FLARE_ENDPOINT_ID =
\* 30295 and the attributes STARGATE_ETH and STARGATE_USDC with the mainnet
\* ETH and USDC OFT addresses
C22_CreatedExposesAttributes ==
    \A s \in Slots :
        LET c == calls[s] IN
        (c.pc = "done" /\ c.kind = "attr" /\ conn["Stargate"].state = "created") =>
            /\ c.status = "returned"
            /\ c.op = "FLARE_ENDPOINT_ID" => c.value = 30295
            /\ c.op = "STARGATE_ETH" =>
                  c.text = "0x8e8539e4CcD69123c623a106773F2b0cbbc58746"
            /\ c.op = "STARGATE_USDC" =>
                  c.text = "0x77C71633C34C3784ede189d74223122422492a0f"

\* The class constant is exposed by every instance
EndpointIdExposed ==
    \A s \in Slots :
        (calls[s].pc = "done" /\ calls[s].op = "FLARE_ENDPOINT_ID") =>
            calls[s].status = "returned" /\ calls[s].value = 30295

\* C23: sign_and_send_transaction returns the hash as soon as the node has
\* accepted the transaction into its pending pool; the return does not depend
\* on the transaction being mined, and after the submission the client takes
\* no further step on that transaction
C23_ReturnsOnAcceptance ==
    [][\A s \in Slots :
          /\ (calls[s].pc = "send" /\ calls'[s].sends = calls[s].sends + 1
              /\ calls'[s].lastSend = "accepted") =>
                /\ calls'[s].pc = "done" /\ calls'[s].status = "returned"
                /\ calls'[s].hash \in {HashOf(calls[s]), hex(HashOf(calls[s]))}
                /\ calls[s].sentNonce \in pool'
                /\ txCount' = txCount /\ txCount <= calls[s].sentNonce
          /\ txCount' # txCount => (calls' = calls /\ broadcasts' = broadcasts)
          /\ (calls[s].pc = "done" /\ calls[s].status = "returned"
              /\ calls'[s] # calls[s]) =>
                calls'[s].sends = 0 /\ broadcasts' = broadcasts
      ]_vars

\* C23 witness: a write has returned its hash while its transaction is still
\* in the pending pool, not mined
C23_Witness ==
    \E s \in Slots :
        /\ DoneWrite(s) /\ calls[s].status = "returned" /\ calls[s].hash # "none"
        /\ calls[s].sentNonce \in pool /\ txCount <= calls[s].sentNonce

\* C24: the SparkDEX swaps check the swap router first and the account
\* second, before any chain interaction: an unset router raises
\* AttributeError 'not fully initialized' even without an account, a set
\* router without an account raises ValueError 'Account not initialized', and
\* in both cases neither build_transaction nor sign_and_send_transaction runs
C24_RouterBeforeAccount ==
    \A s \in Slots :
        LET c == calls[s] IN
        (c.pc = "done" /\ c.k = "SparkDEX" /\ c.kind = "write") =>
            /\ conn["SparkDEX"].h1 = NoneVal =>
                  /\ c.status = "raised" /\ c.err = "AttributeError"
                  /\ c.msg = "not fully initialized"
                  /\ c.builds = 0 /\ c.sendCalls = 0 /\ ~Interacted(c)
            /\ (conn["SparkDEX"].h1 # NoneVal /\ settings.account_address = NoneVal) =>
                  /\ c.status = "raised" /\ c.err = "ValueError"
                  /\ c.msg = "Account not initialized"
                  /\ c.builds = 0 /\ c.sendCalls = 0 /\ ~Interacted(c)

\* C24 witness: a swap on a bare instance without an account raised
\* AttributeError
C24_Witness ==
    \E s \in Slots :
        /\ calls[s].k = "SparkDEX" /\ calls[s].kind = "write" /\ Done(s)
        /\ settings.account_address = NoneVal
        /\ conn["SparkDEX"].state = "constructed" /\ calls[s].err = "AttributeError"

\* C25: create of Cyclo, Kinetic, Sceptre and Firelight either returns a
\* connector whose contract handles are all set (Cyclo: vault and receipt) or
\* raises the connector's protocol error with the cause attached, the
\* connector's own 'not configured' error included; it never returns a
\* connector with an unset handle
C25_CreateTwoOutcomes ==
    [][\A k \in {"Cyclo", "Kinetic", "Sceptre", "Firelight"} :
          (conn[k].state = "absent" /\ conn'[k].state \notin {"absent", "constructed"}) =>
              \/ /\ conn'[k].state = "created"
                 /\ conn'[k].h1 # NoneVal
                 /\ k = "Cyclo" => conn'[k].h2 # NoneVal
                 /\ conn'[k].err = "none"
              \/ /\ conn'[k].state = "failed"
                 /\ conn'[k].err = ProtocolError(k)
                 /\ conn'[k].cause # "none"
                 /\ conn'[k].h1 = NoneVal /\ conn'[k].h2 = NoneVal
      ]_vars

\* C25 witness: Kinetic.create on a testnet table without the ksFLR address
\* raised KineticError from its own 'not configured' KineticError
C25_Witness ==
    /\ settings.is_testnet
    /\ conn["Kinetic"].state = "failed" /\ conn["Kinetic"].msg = "not configured"
    /\ conn["Kinetic"].err = "KineticError" /\ conn["Kinetic"].cause = "KineticError"

\* A getter has returned the text of an unset address
ReturnedTextOfNone(c) ==
    /\ c.pc = "done" /\ c.status = "returned"
    /\ \/ c.op = "get_oft_address" /\ c.text = Str(NoneVal)
       \/ /\ c.op = "get_bridge_info"
          /\ Str(NoneVal) \in {c.info.token_messaging, c.info.treasurer}

\* C26: Stargate.create succeeds only if all five Stargate addresses of the
\* selected table are set and otherwise raises StargateError; on any Stargate
\* connector in use, get_oft_address for a supported token and get_bridge_info
\* never return the textual form of an unset address ('None')
C26_NeverTextOfUnsetAddress ==
    /\ conn["Stargate"].state = "created" =>
          \A f \in StargateFields : SelectedTable(settings)[f] # NoneVal
    /\ conn["Stargate"].state = "failed" =>
          /\ conn["Stargate"].err = "StargateError"
          /\ \E f \in StargateFields : SelectedTable(settings)[f] = NoneVal
    /\ \A s \in Slots : ~ReturnedTextOfNone(calls[s])

\* Stargate.create verifies the five addresses, and the getters of an instance
\* that create returned give no text of an unset address
CreateVerifiesStargateAddresses ==
    /\ conn["Stargate"].state = "created" =>
          \A f \in StargateFields : SelectedTable(settings)[f] # NoneVal
    /\ conn["Stargate"].state = "failed" =>
          /\ conn["Stargate"].err = "StargateError"
          /\ \E f \in StargateFields : SelectedTable(settings)[f] = NoneVal
    /\ conn["Stargate"].state = "created" =>
          \A s \in Slots : ~ReturnedTextOfNone(calls[s])

\* Stargate.create has failed on an empty testnet table
CreateVerifiesStargateAddresses_Reached ==
    /\ settings.is_testnet /\ conn["Stargate"].state = "failed"
    /\ conn["Stargate"].msg = "not configured"

C28_ValueAndSender ==
    \A s \in Slots :
        LET c == calls[s] IN
        (c.kind = "write" /\ c.builds > 0) =>
            /\ c.builtBy \in {"none", "build_transaction"}
            /\ (c.k = "Sceptre" /\ c.op = "stake_flr") => c.txValue = c.amount
            /\ ~(c.k = "Sceptre" /\ c.op = "stake_flr") => c.txValue = 0
            /\ c.txFrom = settings.account_address

\* C28 witness: stake_flr(10) has built a transaction with value 10, sent by
\* the account
C28_Witness ==
    \E s \in Slots :
        /\ calls[s].k = "Sceptre" /\ calls[s].op = "stake_flr" /\ HasTx(s)
        /\ calls[s].amount = 10 /\ calls[s].txValue = 10
        /\ calls[s].txFrom = AccountAddr

\* C29: every name of get_supported_chains() has an endpoint, different from
\* the endpoint of every other name, and every symbol of
\* get_supported_tokens() has an OFT address lookup that succeeds; a token or
\* chain whose lookup succeeds is, up to letter case, a member of the list
C29_LookupsAgreeWithLists ==
    LET c0 == NewCall("Stargate", "lookup", "read") IN
    /\ \A n \in Range(get_supported_chains) :
          get_chain_endpoint(c0, ChainSpelling(n)).status = "returned"
    /\ \A n, m \in Range(get_supported_chains) :
          n # m => get_chain_endpoint(c0, ChainSpelling(n)).value
                       # get_chain_endpoint(c0, ChainSpelling(m)).value
    /\ \A t \in Range(get_supported_tokens) :
          get_oft_address(c0, TokenSpelling(t)).status = "returned"
    /\ \A s \in Slots :
          LET c == calls[s] IN
          /\ (c.pc = "done" /\ c.op = "get_chain_endpoint" /\ c.status = "returned") =>
                \E n \in Range(get_supported_chains) : SameWord(c.arg, ChainSpelling(n))
          /\ (c.pc = "done" /\ c.op = "get_oft_address" /\ c.status = "returned") =>
                \E t \in Range(get_supported_tokens) : SameWord(c.arg, TokenSpelling(t))
          /\ (c.pc = "done" /\ c.op = "get_supported_chains") =>
                \A i \in 1..Len(c.list) :
                    get_chain_endpoint(c0, ChainSpelling(c.list[i])).status = "returned"
          /\ (c.pc = "done" /\ c.op = "get_supported_tokens") =>
                \A i \in 1..Len(c.list) :
                    get_oft_address(c0, TokenSpelling(c.list[i])).status = "returned"

\* C29 witness: the lookup of 'mantle', the last name of the list, gave 30181
C29_Witness ==
    \E s \in Slots :
        /\ calls[s].op = "get_chain_endpoint"
        /\ calls[s].arg = ChainSpelling(get_supported_chains[Len(get_supported_chains)])
        /\ calls[s].status = "returned" /\ calls[s].value = 30181

====
